---- MODULE Spec2Model ----
(***************************************************************************)
(* The DownloadPiece command of src/main.rs as a state machine: one client *)
(* talking to one peer over one connection.  The peer is the environment:  *)
(* every blocking receive draws what the peer sent from a small set.       *)
(*                                                                         *)
(* Byte strings (blocks, the assembled buffer, the piece on disk) are kept *)
(* run-length encoded: a sequence of runs <<n, v>>, n > 0 bytes of value   *)
(* v, no two adjacent runs with the same v.  Two byte strings are equal    *)
(* exactly when their encodings are equal, so BLOCK_MAX keeps its real     *)
(* value.                                                                  *)
(***************************************************************************)
EXTENDS Integers, Sequences, FiniteSets

\* ------------------------------------------------------------------ bounds
\* piece lengths tried are k * BLOCK_MAX - 1, k * BLOCK_MAX and k * BLOCK_MAX + 1,
\* k in 0..MaxBlocks
MaxBlocks == 2
\* number of pieces of the torrent
MaxPieces == 2

\* ------------------------------------------------------- program constants
BLOCK_MAX == 16384

\* ------------------------------------------------------------ byte strings
Min(a, b) == IF a < b THEN a ELSE b

Run(n, v) == IF n <= 0 THEN << >> ELSE << <<n, v>> >>

RECURSIVE BLen(_)
BLen(b) == IF b = << >> THEN 0 ELSE b[1][1] + BLen(Tail(b))

\* concatenation, keeping the encoding normal
Cat(a, b) ==
    IF a = << >> THEN b
    ELSE IF b = << >> THEN a
    ELSE IF a[Len(a)][2] = b[1][2]
         THEN SubSeq(a, 1, Len(a) - 1)
              \o << <<a[Len(a)][1] + b[1][1], b[1][2]>> >>
              \o Tail(b)
         ELSE a \o b

\* the first n bytes of b (all of b when it is shorter)
RECURSIVE BTake(_, _)
BTake(b, n) ==
    IF n <= 0 \/ b = << >> THEN << >>
    ELSE IF b[1][1] >= n THEN << <<n, b[1][2]>> >>
    ELSE << b[1] >> \o BTake(Tail(b), n - b[1][1])

\* b without its first n bytes
RECURSIVE BDrop(_, _)
BDrop(b, n) ==
    IF n <= 0 \/ b = << >> THEN b
    ELSE IF b[1][1] > n THEN << <<b[1][1] - n, b[1][2]>> >> \o Tail(b)
    ELSE BDrop(Tail(b), n - b[1][1])

\* bytes [from, from + n) of b
BSlice(b, from, n) == BTake(BDrop(b, from), n)

\* ----------------------------------------------------------------- torrent
\* t.info.plength, t.length() and t.info.pieces.0.len() of the parsed torrent
PLengths ==
    { n \in { k * BLOCK_MAX + d : k \in 0..MaxBlocks, d \in {0 - 1, 0, 1} } :
        n >= 1 }

\* sizes tried for the last piece of a torrent with this piece length
LastSizes(plength) ==
    {1, plength}

TorrentsOf(pl) ==
    { [plength |-> pl, length |-> (np - 1) * pl + last, npieces |-> np] :
        np \in 1..MaxPieces, last \in LastSizes(pl) }

Torrents == UNION { TorrentsOf(pl) : pl \in PLengths }

\* what the file really holds: the bytes of block k of piece i all have one
\* value, different for different (i, k); 0 never occurs in the file
FileByte(i, k) == 1 + k + 8 * i
CorruptByte == FileByte(0, 0) - 1

\* the real size of piece i of torrent t
TrueSize(t, i) ==
    IF i = t.npieces - 1 THEN t.length - i * t.plength ELSE t.plength

RECURSIVE PieceFrom(_, _, _)
PieceFrom(i, size, k) ==
    IF size <= k * BLOCK_MAX THEN << >>
    ELSE Cat(Run(Min(BLOCK_MAX, size - k * BLOCK_MAX), FileByte(i, k)),
             PieceFrom(i, size, k + 1))

\* the bytes of piece i of torrent t
PieceData(t, i) == PieceFrom(i, TrueSize(t, i), 0)

\* Sha1 digest of a byte string: a function of the bytes alone, taken to be
\* collision free
Sha1(b) == [sha1 |-> b]
NoHash == [sha1 |-> << <<0, 0>> >>]

\* t.info.pieces.0[i], the digest the torrent file lists for piece i
PieceHashOf(t, i) == Sha1(PieceData(t, i))

\* t.info_hash() of the torrent the client loaded, and some other torrent's
InfoHash == "info_hash"
OtherInfoHash == "other_info_hash"
PeerId == "00112233445566778899"
RemotePeerId == "remote_peer_id"

\* ------------------------------------------------------------ wire formats
\* Handshake::new(info_hash, peer_id): the 68-byte record, field by field
NewHandshake(info_hash, peer_id) ==
    [length |-> 19, bittorrent |-> "BitTorrent protocol", reserved |-> 0,
     info_hash |-> info_hash, peer_id |-> peer_id]

\* a message payload: the 4-byte big-endian integers it starts with, then
\* raw bytes
Payload(hdr, bytes) == [hdr |-> hdr, block |-> bytes]
EmptyPayload == Payload(<< >>, << >>)
OneByte == Payload(<< >>, Run(1, CorruptByte))
PayloadIsEmpty(p) == p.hdr = << >> /\ p.block = << >>

Message(tag, payload) == [tag |-> tag, payload |-> payload]

\* Request::new(index, begin, length) as the payload of a Request message
NewRequest(index, begin, length) == Payload(<<index, begin, length>>, << >>)

\* a Piece payload: index, begin, then the block
PiecePayload(index, begin, bytes) == Payload(<<index, begin>>, bytes)
\* the payload is long enough to hold the 8 bytes index and begin take
HasPieceHeader(p) == Len(p.hdr) >= 2
\* Piece::block(): the payload after index and begin (the Piece type is not
\* in main.rs; the block is taken to be the remainder of the payload, as the
\* wire format has it)
PieceBlockOf(p) == p.block

\* ------------------------------------------------------------------- peer
\* the 68 bytes a peer may answer the handshake with
HandshakeReplies ==
    { [length |-> l, bittorrent |-> b, reserved |-> 0, info_hash |-> h,
       peer_id |-> RemotePeerId] :
        <<l, b, h>> \in
            { <<19, "BitTorrent protocol", InfoHash>>,
              <<19, "BitTorrent protocol", OtherInfoHash>>,
              <<19, "BitTorrent pr0tocol", InfoHash>> } }

\* the same, and 68 bytes that do not start with 19, for the Handshake command
HsReplies ==
    HandshakeReplies \cup
        { [length |-> 18, bittorrent |-> "BitTorrent protocol", reserved |-> 0,
           info_hash |-> InfoHash, peer_id |-> RemotePeerId] }

\* messages a peer may send that are not answers to a Request
ControlMessages ==
    { Message("Bitfield", OneByte),
      Message("Unchoke", EmptyPayload),
      Message("Unchoke", OneByte),
      Message("Have", Payload(<<0>>, << >>)),
      Message("Choke", EmptyPayload) }

\* messages a peer may send instead of the Piece a Request asks for
OutOfTurnMessages ==
    { Message("Have", Payload(<<0>>, << >>)),
      Message("Choke", EmptyPayload) }

\* the bytes of piece index from begin on, at most length of them
HonestBlock(t, index, begin, length) ==
    IF index < t.npieces THEN BSlice(PieceData(t, index), begin, length) ELSE << >>

\* Piece messages a peer may answer Request{index, begin, length} with
PieceReplies(t, index, begin, length) ==
    LET good == HonestBlock(t, index, begin, length)
    IN  { Message("Piece", PiecePayload(index, begin, good)),
          Message("Piece", PiecePayload(index, begin, Run(BLen(good), CorruptByte))),
          Message("Piece", PiecePayload(index + 1, begin, good)),
          Message("Piece", PiecePayload(index, begin + BLOCK_MAX, good)),
          Message("Piece", PiecePayload(index, begin, BTake(good, BLen(good) - 1))),
          Message("Piece", PiecePayload(index, begin, Cat(good, Run(1, CorruptByte)))),
          Message("Piece", EmptyPayload),
          Message("Piece", OneByte) }

\* what MessageFramer's next() yields: a message, an invalid frame (unknown
\* tag, truncated frame), or the end of the stream; keep-alives are skipped
\* inside the framer
FramerNext(msgs) ==
    { [res |-> "msg", msg |-> m] : m \in msgs }
        \cup { [res |-> r, msg |-> Message("Choke", EmptyPayload)] : r \in {"err", "none"} }

\* what an out-of-bounds read of a Piece payload shorter than its header can
\* put into the buffer
Garbage == { Run(1, CorruptByte) }

\* ------------------------------------------------------------------ state
VARIABLES
    torrent,      \* t: plength, length, npieces of the parsed torrent file
    piece,        \* the piece index given on the command line
    pc,           \* where DownloadPiece is
    fail,         \* "none", or how the run failed (a panic or a returned error)
    handshake,    \* the handshake record: sent, then overwritten by the reply
    piece_hash,   \* t.info.pieces.0[piece]
    piece_size,
    nblock,
    block,        \* the loop variable of the block loop
    all_blocks,   \* the assembled bytes
    wire,         \* everything written to and read from the connection, in order
    output        \* the output file: whether written, and its bytes

vars == <<torrent, piece, pc, fail, handshake, piece_hash, piece_size, nblock,
          block, all_blocks, wire, output>>

Out(kind, body) == [dir |-> "out", kind |-> kind, body |-> body]
In(kind, body) == [dir |-> "in", kind |-> kind, body |-> body]

\* the event a framer result is logged as
InEvent(r) == IF r.res = "msg" THEN In("msg", r.msg) ELSE In(r.res, "-")

\* the command run is DownloadPiece (pc = "start", with a piece index) or
\* Handshake (pc = "hs_start", which takes no piece index)
Init ==
    /\ torrent \in Torrents
    /\ \/ pc = "start" /\ piece \in 0..torrent.npieces
       \/ pc = "hs_start" /\ piece = 0
    /\ fail = "none"
    /\ handshake = NewHandshake("-", "-")
    /\ piece_hash = NoHash
    /\ piece_size = 0
    /\ nblock = 0
    /\ block = 0
    /\ all_blocks = << >>
    /\ wire = << >>
    /\ output = [written |-> FALSE, data |-> << >>]

\* the run ends: a panic, or an error returned from main
Fail(how) == pc' = "failed" /\ fail' = how

\* ---------------------------------------------------------- the arithmetic
\* faulty variant: the last piece takes the bare remainder
PieceSizeBareRemainder(t, i) ==
    IF i = t.npieces - 1 THEN t.length % t.plength ELSE t.plength

PieceSize(t, i) ==
    IF i = t.npieces + 1 THEN t.length % t.plength ELSE t.plength

NBlock(size) == (size + (BLOCK_MAX + 1)) \div BLOCK_MAX

BlockSize(b, n, size) ==
    IF b = n - 1 THEN size % BLOCK_MAX ELSE BLOCK_MAX

\* faulty variant: offsets counted from the end of the block
BlockBeginOffByOne(b) == (b + 1) * BLOCK_MAX

BlockBegin(b) == b * BLOCK_MAX

\* the Request message of block b (index, begin and length are cast to u32:
\* the sizes tried stay far below 2^32)
RequestMessage(i, b, n, size) ==
    Message("Request", NewRequest(i, BlockBegin(b), BlockSize(b, n, size)))

\* ---------------------------------------------------------------- actions
\* load the torrent, check the piece index, ask the tracker, connect
Start ==
    /\ pc = "start"
    /\ \/ piece >= torrent.npieces /\ Fail("panic: piece < pieces.len()")
       \/ piece < torrent.npieces /\ Fail("error: connect to peer")
       \/ piece < torrent.npieces /\ pc' = "write_handshake" /\ fail' = fail
    /\ UNCHANGED <<torrent, piece, handshake, piece_hash, piece_size, nblock,
                   block, all_blocks, wire, output>>

WriteHandshake ==
    /\ pc = "write_handshake"
    /\ handshake' = NewHandshake(InfoHash, PeerId)
    /\ \/ /\ wire' = Append(wire, Out("handshake", handshake'))
          /\ pc' = "read_handshake" /\ fail' = fail
       \/ Fail("error: write handshake") /\ wire' = wire
    /\ UNCHANGED <<torrent, piece, piece_hash, piece_size, nblock, block,
                   all_blocks, output>>

\* faulty variant: a short read is taken for the whole handshake
ReadHandshakeShortOk ==
    /\ pc = "read_handshake"
    /\ \/ \E h \in HandshakeReplies :
            /\ handshake' = h
            /\ wire' = Append(wire, In("handshake", h))
            /\ pc' = "recv_bitfield" /\ fail' = fail
       \/ /\ pc' = "recv_bitfield" /\ fail' = fail
          /\ wire' = Append(wire, In("closed", "-"))
          /\ handshake' = handshake
    /\ UNCHANGED <<torrent, piece, piece_hash, piece_size, nblock, block,
                   all_blocks, output>>

\* read_exact of 68 bytes into the handshake record; nothing is compared
ReadHandshake ==
    /\ pc = "read_handshake"
    /\ \/ \E h \in HandshakeReplies :
            /\ handshake' = h
            /\ wire' = Append(wire, In("handshake", h))
            /\ pc' = "recv_bitfield" /\ fail' = fail
       \/ /\ Fail("error: read handshake")
          /\ wire' = Append(wire, In("closed", "-"))
          /\ handshake' = handshake
    /\ UNCHANGED <<torrent, piece, piece_hash, piece_size, nblock, block,
                   all_blocks, output>>

\* faulty variant: the tag of the first message is not looked at
RecvBitfieldAnyTag ==
    /\ pc = "recv_bitfield"
    /\ \E r \in FramerNext(ControlMessages) :
        /\ wire' = Append(wire, InEvent(r))
        /\ IF r.res = "none" THEN Fail("panic: peer always sends a bitfields")
           ELSE IF r.res = "err" THEN Fail("error: peer message was invalid")
           ELSE pc' = "send_interested" /\ fail' = fail
    /\ UNCHANGED <<torrent, piece, handshake, piece_hash, piece_size, nblock,
                   block, all_blocks, output>>

RecvBitfield ==
    /\ pc = "recv_bitfield"
    /\ \E r \in FramerNext(ControlMessages) :
        /\ wire' = Append(wire, InEvent(r))
        /\ IF r.res = "none" THEN Fail("panic: peer always sends a bitfields")
           ELSE IF r.res = "err" THEN Fail("error: peer message was invalid")
           ELSE IF r.msg.tag # "Bitfield" THEN Fail("panic: bitfield.tag")
           ELSE pc' = "send_interested" /\ fail' = fail
    /\ UNCHANGED <<torrent, piece, handshake, piece_hash, piece_size, nblock,
                   block, all_blocks, output>>

SendInterested ==
    /\ pc = "send_interested"
    /\ \/ /\ wire' = Append(wire, Out("msg", Message("Interested", EmptyPayload)))
          /\ pc' = "recv_unchoke" /\ fail' = fail
       \/ Fail("error: send interested message") /\ wire' = wire
    /\ UNCHANGED <<torrent, piece, handshake, piece_hash, piece_size, nblock,
                   block, all_blocks, output>>

\* faulty variant: any message is taken for the Unchoke
RecvUnchokeAnyTag ==
    /\ pc = "recv_unchoke"
    /\ \E r \in FramerNext(ControlMessages) :
        /\ wire' = Append(wire, InEvent(r))
        /\ IF r.res = "none" THEN Fail("panic: peer always sends an unchoke")
           ELSE IF r.res = "err" THEN Fail("error: peer message was invalid")
           ELSE pc' = "sizes" /\ fail' = fail
    /\ UNCHANGED <<torrent, piece, handshake, piece_hash, piece_size, nblock,
                   block, all_blocks, output>>

RecvUnchoke ==
    /\ pc = "recv_unchoke"
    /\ \E r \in FramerNext(ControlMessages) :
        /\ wire' = Append(wire, InEvent(r))
        /\ IF r.res = "none" THEN Fail("panic: peer always sends an unchoke")
           ELSE IF r.res = "err" THEN Fail("error: peer message was invalid")
           ELSE IF r.msg.tag # "Unchoke" THEN Fail("panic: unchoke.tag")
           ELSE IF ~PayloadIsEmpty(r.msg.payload) THEN Fail("panic: unchoke.payload")
           ELSE pc' = "sizes" /\ fail' = fail
    /\ UNCHANGED <<torrent, piece, handshake, piece_hash, piece_size, nblock,
                   block, all_blocks, output>>

\* piece_hash, piece_size, nblock, the empty buffer, the loop's first test
Sizes ==
    /\ pc = "sizes"
    /\ piece_hash' = PieceHashOf(torrent, piece)
    /\ piece_size' = PieceSize(torrent, piece)
    /\ nblock' = NBlock(piece_size')
    /\ all_blocks' = << >>
    /\ block' = 0
    /\ pc' = IF 0 < nblock' THEN "send_request" ELSE "verify"
    /\ UNCHANGED <<torrent, piece, fail, handshake, wire, output>>

SendRequest ==
    /\ pc = "send_request"
    /\ \/ /\ wire' = Append(wire, Out("msg", RequestMessage(piece, block, nblock, piece_size)))
          /\ pc' = "recv_piece" /\ fail' = fail
       \/ Fail("error: send request message") /\ wire' = wire
    /\ UNCHANGED <<torrent, piece, handshake, piece_hash, piece_size, nblock,
                   block, all_blocks, output>>

\* the rest of one turn of the block loop, once the message is there
AcceptPiece(bytes) ==
    /\ all_blocks' = Cat(all_blocks, bytes)
    /\ block' = block + 1
    /\ pc' = IF block + 1 < nblock THEN "send_request" ELSE "verify"
    /\ fail' = fail

RecvPiece ==
    /\ pc = "recv_piece"
    /\ \E r \in FramerNext(OutOfTurnMessages \cup
                    PieceReplies(torrent, piece, BlockBegin(block),
                                 BlockSize(block, nblock, piece_size))) :
        /\ wire' = Append(wire, InEvent(r))
        /\ IF r.res = "none"
             THEN Fail("panic: peer always sends an piece") /\ UNCHANGED <<all_blocks, block>>
           ELSE IF r.res = "err"
             THEN Fail("error: peer message was invalid") /\ UNCHANGED <<all_blocks, block>>
           ELSE IF r.msg.tag # "Piece"
             THEN Fail("panic: piece.tag") /\ UNCHANGED <<all_blocks, block>>
           ELSE IF PayloadIsEmpty(r.msg.payload)
             THEN Fail("panic: piece.payload") /\ UNCHANGED <<all_blocks, block>>
           ELSE IF ~HasPieceHeader(r.msg.payload)
             THEN \/ Fail("crash: read past the payload") /\ UNCHANGED <<all_blocks, block>>
                  \/ \E g \in Garbage : AcceptPiece(g)
           ELSE AcceptPiece(PieceBlockOf(r.msg.payload))
    /\ UNCHANGED <<torrent, piece, handshake, piece_hash, piece_size, nblock, output>>

\* faulty variant: the buffer is written out before the digest is compared
VerifyAfterWrite ==
    /\ pc = "verify"
    /\ output' = [written |-> TRUE, data |-> all_blocks]
    /\ IF piece_hash = Sha1(all_blocks)
         THEN pc' = "done" /\ fail' = fail
         ELSE Fail("panic: piece_hash")
    /\ UNCHANGED <<torrent, piece, handshake, piece_hash, piece_size, nblock,
                   block, all_blocks, wire>>

\* faulty variant: the digest is computed and not compared
VerifyUnchecked ==
    /\ pc = "verify"
    /\ pc' = "write" /\ fail' = fail
    /\ UNCHANGED <<torrent, piece, handshake, piece_hash, piece_size, nblock,
                   block, all_blocks, wire, output>>

Verify ==
    /\ pc = "verify"
    /\ IF piece_hash = Sha1(all_blocks)
         THEN pc' = "write" /\ fail' = fail
         ELSE Fail("panic: piece_hash")
    /\ UNCHANGED <<torrent, piece, handshake, piece_hash, piece_size, nblock,
                   block, all_blocks, wire, output>>

WriteOutput ==
    /\ pc = "write"
    /\ \/ /\ output' = [written |-> TRUE, data |-> all_blocks]
          /\ pc' = "done" /\ fail' = fail
       \/ Fail("error: write out downloaded piece") /\ output' = output
    /\ UNCHANGED <<torrent, piece, handshake, piece_hash, piece_size, nblock,
                   block, all_blocks, wire>>

\* ------------------------------------------- the Handshake command
\* load the torrent, parse the peer address, connect
HsStart ==
    /\ pc = "hs_start"
    /\ \/ Fail("error: connect to peer")
       \/ pc' = "hs_write" /\ fail' = fail
    /\ UNCHANGED <<torrent, piece, handshake, piece_hash, piece_size, nblock,
                   block, all_blocks, wire, output>>

HsWriteHandshake ==
    /\ pc = "hs_write"
    /\ handshake' = NewHandshake(InfoHash, PeerId)
    /\ \/ /\ wire' = Append(wire, Out("handshake", handshake'))
          /\ pc' = "hs_read" /\ fail' = fail
       \/ Fail("error: write handshake") /\ wire' = wire
    /\ UNCHANGED <<torrent, piece, piece_hash, piece_size, nblock, block,
                   all_blocks, output>>

HsReadHandshake ==
    /\ pc = "hs_read"
    /\ \/ \E h \in HsReplies :
            /\ handshake' = h
            /\ wire' = Append(wire, In("handshake", h))
            /\ pc' = "hs_check" /\ fail' = fail
       \/ /\ Fail("error: read handshake")
          /\ wire' = Append(wire, In("closed", "-"))
          /\ handshake' = handshake
    /\ UNCHANGED <<torrent, piece, piece_hash, piece_size, nblock, block,
                   all_blocks, output>>

\* the two assertions on the reply, then the peer id is printed
HsCheck ==
    /\ pc = "hs_check"
    /\ IF handshake.length # 19 THEN Fail("panic: handshake.length")
       ELSE IF handshake.bittorrent # "BitTorrent protocol"
         THEN Fail("panic: handshake.bittorrent")
       ELSE pc' = "hs_done" /\ fail' = fail
    /\ UNCHANGED <<torrent, piece, handshake, piece_hash, piece_size, nblock,
                   block, all_blocks, wire, output>>

Next ==
    \/ HsStart
    \/ HsWriteHandshake
    \/ HsReadHandshake
    \/ HsCheck
    \/ Start
    \/ WriteHandshake
    \/ ReadHandshake
    \/ RecvBitfield
    \/ SendInterested
    \/ RecvUnchoke
    \/ Sizes
    \/ SendRequest
    \/ RecvPiece
    \/ Verify
    \/ WriteOutput

Spec == Init /\ [][Next]_vars

\* The steps the program takes on its own are taken when they can be.  The
\* receiving steps wait for the peer, which need never send: the code sets no
\* deadline on them, so nothing obliges them to happen.
FairSpec ==
    /\ Init /\ [][Next]_vars
    /\ WF_vars(HsStart) /\ WF_vars(HsWriteHandshake) /\ WF_vars(HsCheck)
    /\ WF_vars(Start) /\ WF_vars(WriteHandshake) /\ WF_vars(SendInterested)
    /\ WF_vars(Sizes) /\ WF_vars(SendRequest) /\ WF_vars(Verify)
    /\ WF_vars(WriteOutput)

\* ------------------------------------------------- reading the state
IsOutMsg(e, tag) == e.dir = "out" /\ e.kind = "msg" /\ e.body.tag = tag
IsInMsg(e, tag) == e.dir = "in" /\ e.kind = "msg" /\ e.body.tag = tag
IsFramed(e) == e.kind \in {"msg", "none", "err"}
IsHandshakeIn(e) == e.dir = "in" /\ e.kind = "handshake"

\* the Request messages sent so far, in order
IsRequestOut(e) == IsOutMsg(e, "Request")
Requests == SelectSeq(wire, IsRequestOut)
RequestBegin(k) == Requests[k].body.payload.hdr[2]
RequestLength(k) == Requests[k].body.payload.hdr[3]

\* the Piece messages received so far, in order
IsPieceIn(e) == IsInMsg(e, "Piece")
Pieces == SelectSeq(wire, IsPieceIn)

\* piece_size and nblock have been computed; the block loop has run to its end
SizesDone == piece_hash # NoHash
LoopDone == SizesDone /\ block = nblock

CeilDiv(a, b) == (a + b - 1) \div b

RECURSIVE SumRequestLengths(_)
SumRequestLengths(k) == IF k = 0 THEN 0 ELSE RequestLength(k) + SumRequestLengths(k - 1)

\* the Request that is outstanding when event i of the connection arrives
LastRequestBefore(i) ==
    wire[CHOOSE j \in 1..(i - 1) :
            /\ IsOutMsg(wire[j], "Request")
            /\ \A l \in (j + 1)..(i - 1) : ~IsOutMsg(wire[l], "Request")]

\* event e is a Piece message that carries index and begin
IsPieceFrame(e) == IsInMsg(e, "Piece") /\ HasPieceHeader(e.body.payload)

\* the Piece frame e answers Request r: same index, same begin
Matches(e, r) ==
    /\ e.body.payload.hdr[1] = r.body.payload.hdr[1]
    /\ e.body.payload.hdr[2] = r.body.payload.hdr[2]

\* ------------------------------------------------------------------ claims

\* C1: once DownloadPiece has computed piece_size for piece index i of a torrent
\* with npieces = ceil(length / plength), piece_size is plength when i is not the
\* last index, and length mod plength when i is the last index and that
\* remainder is not zero.
C1_PieceSizeByIndex ==
    SizesDone =>
        /\ piece # torrent.npieces - 1 => piece_size = torrent.plength
        /\ (piece = torrent.npieces - 1 /\ torrent.length % torrent.plength # 0)
              => piece_size = torrent.length % torrent.plength

\* C2: when the block loop has ended, the Requests it sent are exactly
\* ceil(piece_size / BLOCK_MAX) many, all of length BLOCK_MAX but the last, the
\* last of length piece_size mod BLOCK_MAX (BLOCK_MAX when that is zero), and
\* the lengths add up to piece_size.
C2_RequestSplit ==
    LoopDone =>
        LET n == Len(Requests)
        IN  /\ n = CeilDiv(piece_size, BLOCK_MAX)
            /\ \A k \in 1..(n - 1) : RequestLength(k) = BLOCK_MAX
            /\ RequestLength(n) =
                  (IF piece_size % BLOCK_MAX = 0 THEN BLOCK_MAX
                   ELSE piece_size % BLOCK_MAX)
            /\ SumRequestLengths(n) = piece_size

\* C3: the output is written only after every block of the loop was received
\* and the digest of the whole assembled buffer equals the digest the torrent
\* lists for the requested piece, and what is written is that buffer; when the
\* loop has ended with a buffer whose digest differs, the run goes from
\* verification to failure and nothing is written.
C3_OutputOnlyVerified ==
    /\ (output.written \/ pc \in {"write", "done"}) =>
          /\ LoopDone
          /\ Len(Pieces) = nblock
          /\ Sha1(all_blocks) = PieceHashOf(torrent, piece)
    /\ output.written => output.data = all_blocks
    /\ (LoopDone /\ Sha1(all_blocks) # PieceHashOf(torrent, piece)) =>
          (pc \in {"verify", "failed"} /\ ~output.written)

\* C3 witness: a piece of more than one block was downloaded and written
C3_Witness == pc = "done" /\ output.written /\ BLen(output.data) > BLOCK_MAX

\* C4: when the handshake read from the peer carries an info_hash other than
\* the local one, the run fails there: nothing more is read from or written to
\* the connection (no bitfield read, no Interested, no Request).
C4_InfoHashMismatchFails ==
    \A i \in 1..Len(wire) :
        (IsHandshakeIn(wire[i]) /\ wire[i].body.info_hash # InfoHash) =>
            (Len(wire) = i /\ pc \notin {"send_interested", "recv_unchoke", "sizes",
                                         "send_request", "recv_piece", "verify",
                                         "write", "done"})

\* C5: the phases come in order: every framed message sent or read comes after
\* the local handshake was written and the peer's handshake read; Interested is
\* sent only after a Bitfield message was received; a Request is sent only
\* after an Unchoke was received; verification starts only when the last event
\* of the connection is the received Piece message that ends the block loop.
C5_PhaseOrder ==
    /\ \A i \in 1..Len(wire) :
          /\ IsFramed(wire[i]) =>
                /\ i > 2
                /\ wire[1].dir = "out" /\ wire[1].kind = "handshake"
                /\ IsHandshakeIn(wire[2])
          /\ IsOutMsg(wire[i], "Interested") =>
                \E j \in 1..(i - 1) : IsInMsg(wire[j], "Bitfield")
          /\ IsOutMsg(wire[i], "Request") =>
                \E j \in 1..(i - 1) : IsInMsg(wire[j], "Unchoke")
    /\ pc \in {"verify", "write", "done"} =>
          /\ Len(wire) > 0
          /\ IsInMsg(wire[Len(wire)], "Piece")
          /\ Len(Requests) = nblock
          /\ Len(Pieces) = nblock

\* C5 witness: verification starts after a loop of three blocks
C5_Witness == pc = "verify" /\ nblock >= 3 /\ Len(Pieces) = nblock

\* C6: the k-th Request sent (k = 0, 1, ...) has begin = k * BLOCK_MAX, and at
\* every moment the Requests sent are as many as the Piece messages received,
\* or one more: a Request is sent only when every earlier one has its Piece.
C6_SequentialRequests ==
    /\ \A k \in 1..Len(Requests) : RequestBegin(k) = (k - 1) * BLOCK_MAX
    /\ Len(Requests) - Len(Pieces) \in {0, 1}
    /\ pc = "send_request" => Len(Requests) = Len(Pieces)

\* C6 witness: a third Request has been sent and answered
C6_Witness == Len(Requests) >= 3 /\ Len(Pieces) = Len(Requests)

\* C7: a received Piece frame whose index or begin differs from the outstanding
\* Request makes the run fail, and its block is not added to the buffer.
C7_MismatchedPieceRejected ==
    [][ (/\ pc = "recv_piece"
         /\ Len(wire') = Len(wire) + 1
         /\ IsPieceFrame(wire'[Len(wire')])
         /\ ~Matches(wire'[Len(wire')], LastRequestBefore(Len(wire'))))
        => (pc' = "failed" /\ all_blocks' = all_blocks) ]_vars

\* C8: when verification starts after a run in which every received Piece
\* message answered its Request (same index, same begin), every such frame,
\* with begin = b and block B, has its block in the buffer at b: bytes
\* [b, b + len(B)) of the buffer are B.
C8_BlocksAtFrameOffset ==
    (/\ pc = "verify"
     /\ \A i \in 1..Len(wire) :
            IsInMsg(wire[i], "Piece") =>
                (IsPieceFrame(wire[i]) /\ Matches(wire[i], LastRequestBefore(i))))
    => \A i \in 1..Len(wire) :
            IsPieceFrame(wire[i]) =>
                LET b == wire[i].body.payload.hdr[2]
                    B == PieceBlockOf(wire[i].body.payload)
                IN  BSlice(all_blocks, b, BLen(B)) = B

\* C9: when the first framed message received is not a Bitfield, the run has
\* failed and no Interested and no Request was sent.
C9_FirstMessageMustBeBitfield ==
    (/\ Len(wire) >= 3
     /\ wire[3].dir = "in" /\ wire[3].kind = "msg"
     /\ wire[3].body.tag # "Bitfield")
    => /\ pc = "failed"
       /\ \A i \in 1..Len(wire) :
            ~IsOutMsg(wire[i], "Interested") /\ ~IsOutMsg(wire[i], "Request")

\* C9 witness: the peer's first message was a Have (or another tag), and the
\* run failed on it
C9_Witness ==
    /\ Len(wire) = 3 /\ wire[3].dir = "in" /\ wire[3].kind = "msg"
    /\ wire[3].body.tag = "Have" /\ pc = "failed"

\* C10: after Interested was sent, as long as everything received since is Have
\* or Bitfield messages, the run has not failed: it is still waiting for the
\* Unchoke.
C10_HaveBeforeUnchokeIgnored ==
    \A i \in 1..Len(wire) :
        (/\ IsOutMsg(wire[i], "Interested")
         /\ \A j \in (i + 1)..Len(wire) :
                IsInMsg(wire[j], "Have") \/ IsInMsg(wire[j], "Bitfield"))
        => pc = "recv_unchoke"

\* C11: while a Request is outstanding, a received message whose tag is not
\* Piece is ignored: the run does not fail, the buffer and the loop variable
\* do not change, no Request is sent, and the wait for the Piece goes on.
C11_NonPieceIgnoredWhileWaiting ==
    [][ (/\ pc = "recv_piece"
         /\ Len(wire') = Len(wire) + 1
         /\ wire'[Len(wire')].dir = "in" /\ wire'[Len(wire')].kind = "msg"
         /\ wire'[Len(wire')].body.tag # "Piece")
        => (pc' = "recv_piece" /\ all_blocks' = all_blocks /\ block' = block) ]_vars

\* the ways a run fails by returning an error from main (the others are panics)
Errors ==
    { "error: connect to peer", "error: write handshake", "error: read handshake",
      "error: peer message was invalid", "error: send interested message",
      "error: send request message", "error: write out downloaded piece" }

\* h is a handshake reply with length byte 19 and another protocol literal
WrongLiteral(h) == h.length = 19 /\ h.bittorrent # "BitTorrent protocol"

\* C12: in the Handshake command and in DownloadPiece, a 68-byte reply with
\* length byte 19 and a wrong protocol literal is rejected: the run takes no
\* further step of the protocol and does not end well, and when it has ended
\* it has ended with a returned error, not a panic.
C12_WrongLiteralRejected ==
    \A i \in 1..Len(wire) :
        (IsHandshakeIn(wire[i]) /\ WrongLiteral(wire[i].body)) =>
            /\ Len(wire) = i
            /\ pc \in {"hs_check", "recv_bitfield", "failed"}
            /\ pc = "failed" => fail \in Errors

\* C13: for a torrent of one piece that is one block (piece length = total
\* length = BLOCK_MAX), once a Piece message for offset 0 with a block of
\* BLOCK_MAX bytes was received, the run needs nothing more from the peer: no
\* second Request is sent, the run is verifying, writing, or has ended, it ends
\* well only with exactly that block as output, and a block that differs from
\* the piece never gets past verification.
C13_OneBlockPieceFinishes ==
    (/\ torrent.plength = BLOCK_MAX /\ torrent.length = BLOCK_MAX
     /\ torrent.npieces = 1
     /\ Len(Pieces) >= 1
     /\ IsPieceFrame(Pieces[1])
     /\ Pieces[1].body.payload.hdr[2] = 0
     /\ BLen(PieceBlockOf(Pieces[1].body.payload)) = BLOCK_MAX)
    => /\ Len(Requests) = 1 /\ Len(Pieces) = 1
       /\ pc \in {"verify", "write", "done", "failed"}
       /\ pc = "done" => output.data = PieceBlockOf(Pieces[1].body.payload)
       /\ PieceBlockOf(Pieces[1].body.payload) # PieceData(torrent, piece)
             => pc \in {"verify", "failed"}

\* C14: when the total length is an exact multiple of the piece length, the
\* piece_size computed for the last piece index is the full piece length, and
\* so not zero.
C14_ExactMultipleLastPieceFull ==
    (/\ SizesDone
     /\ piece = torrent.npieces - 1
     /\ torrent.length % torrent.plength = 0)
    => (piece_size = torrent.plength /\ piece_size # 0)

\* C14 witness: piece_size was computed for the last of two pieces of a torrent
\* whose length is twice its piece length
C14_Witness ==
    /\ SizesDone /\ torrent.npieces = 2 /\ piece = 1
    /\ torrent.length = 2 * torrent.plength

\* what was written to the connection so far
IsOut(e) == e.dir = "out"
Sent == SelectSeq(wire, IsOut)

\* C15: failure is terminal. A run that has failed takes no further step
\* (nothing is sent, no new connection, no output), and the step that fails
\* sends nothing and leaves the output unwritten, whatever the buffer holds.
C15_FailureIsTerminal ==
    [][ /\ pc = "failed" => UNCHANGED vars
        /\ (pc' = "failed" /\ pc # "failed") =>
              /\ Sent' = Sent
              /\ ~output.written /\ output' = output ]_vars

\* C15 witness: the run failed in the block loop with a partly filled buffer
\* (the peer closed the connection), and nothing was written
C15_Witness ==
    /\ pc = "failed" /\ fail = "panic: peer always sends an piece"
    /\ all_blocks # << >> /\ block < nblock
    /\ ~output.written

\* C16: when the peer closes the connection before 68 handshake bytes came,
\* the run fails at once with the error of the handshake read, with no reply in
\* the handshake record to compare; and a run that did read 68 bytes never
\* ends with that error, whatever the reply holds.
C16_ShortHandshakeIsConnectionError ==
    /\ (Len(wire) > 0 /\ wire[Len(wire)].kind = "closed") =>
          /\ pc = "failed" /\ fail = "error: read handshake"
          /\ handshake = NewHandshake(InfoHash, PeerId)
    /\ (\E i \in 1..Len(wire) : IsHandshakeIn(wire[i])) =>
          fail # "error: read handshake"

\* C16 witness: the peer closed the connection during the handshake read
C16_Witness ==
    /\ Len(wire) = 2 /\ wire[2].kind = "closed"
    /\ pc = "failed"

\* C17: every blocking receive is bounded: also when the peer stops responding
\* without closing the connection, the run comes to an end.
C17_ReceivesAreBounded == <>(pc \in {"done", "hs_done", "failed"})

\* C18: every Request sent has 1 <= length <= BLOCK_MAX and
\* begin + length <= piece_size.
C18_RequestsWithinPiece ==
    \A k \in 1..Len(Requests) :
        /\ 1 <= RequestLength(k) /\ RequestLength(k) <= BLOCK_MAX
        /\ RequestBegin(k) + RequestLength(k) <= piece_size

\* C19: whatever the peer sends, the assembled buffer never holds more than
\* piece_size bytes, and it holds exactly piece_size bytes when verification
\* starts.
C19_BufferWithinPiece ==
    /\ SizesDone => BLen(all_blocks) <= piece_size
    /\ pc = "verify" => BLen(all_blocks) = piece_size

====
